---- MODULE Spec2Model ----
(***************************************************************************)
(* Prompt-learning wrappers of paddlenlp/prompt/prompt_model.py:           *)
(* PromptModelForSequenceClassification and PromptModelForGeneration.      *)
(*                                                                         *)
(* Tensors are abstracted to what the wrappers decide on: a value records  *)
(* where it came from (src), the keyword it was made for (key) and, where  *)
(* the code looks inside it, its rows (data, a sequence of integer rows).  *)
(* A Python dict is a function from its set of keys to values.             *)
(***************************************************************************)
EXTENDS Naturals, Integers, Sequences, FiniteSets, TLC

\* ------------------------------------------------------------------ bounds
\* parameters of the pretrained model
NParams == 2
\* parameters of the template and the verbalizer
NPrompt == 2
\* prefix layers the template emits as past_key_values
NLayer == 2
\* number of caller keywords in **kwargs of one call
MaxKwargs == 2
\* largest num_labels / number of label words
MaxNumLabels == 2
\* largest batch size of the tensors given to a decoding step
MaxBatch == 2
\* longest row of soft_token_ids / token_type_ids in a decoding step
MaxLen == 3

\* ------------------------------------------------------------------ values
None == [src |-> "None", key |-> "", data |-> <<>>]
Arg(k) == [src |-> "arg", key |-> k, data |-> <<>>]
Kw(k, d) == [src |-> "kwargs", key |-> k, data |-> d]
Flag(k) == [src |-> "flag", key |-> k, data |-> <<>>]

EmptyDict == [k \in {} |-> None]

\* {**a, **b}
Merge(a, b) ==
    [k \in (DOMAIN a) \cup (DOMAIN b) |-> IF k \in DOMAIN b THEN b[k] ELSE a[k]]

\* d.pop(k) for a key that is present
Pop(d, k) == [x \in (DOMAIN d) \ {k} |-> d[x]]

\* x in list
InList(x, list) == \E i \in 1..Len(list) : list[i] = x

\* ------------------------------------------------- pretrained model inputs
\* Parameter names of plm.forward that signature() can report.
ErnieMaskedLM ==
    <<"input_ids", "token_type_ids", "position_ids", "attention_mask",
      "masked_positions", "inputs_embeds">>
GPTLMHead ==
    <<"input_ids", "position_ids", "attention_mask", "inputs_embeds",
      "use_cache", "cache", "labels", "return_dict">>
WithPastKeyValues ==
    <<"input_ids", "token_type_ids", "position_ids", "attention_mask",
      "inputs_embeds", "labels", "past_key_values">>
CacheNoLabels == <<"input_ids", "attention_mask", "cache">>

Signatures == {ErnieMaskedLM, GPTLMHead, WithPastKeyValues, CacheNoLabels}
TemplateClasses == {"Template", "SoftTemplate", "PrefixTemplate"}

VARIABLES
    plm_forward,      \* parameter names of the caller's model.forward
    template,         \* class of the template object
    stop_gradient,    \* stop_gradient of every parameter of the model
    training,         \* the model's train/eval mode
    prompt_stop_gradient, \* stop_gradient of the template/verbalizer parameters
    wrapper,          \* "none" | "cls" | "gen" | "TypeError": what construction gave
    verbalizer,       \* self.verbalizer is not None
    freeze_plm,       \* self.freeze_plm
    freeze_dropout,   \* self.freeze_dropout
    forward_keys,     \* self.forward_keys
    process_model_calls, \* calls of template.process_model so far
    plm_prepare,      \* plm.prepare_inputs_for_generation: "plm" | "wrapper"
    base_model_prepare_inputs_for_generation, \* "unset" | "plm" | "wrapper"
    call              \* what the last call did and returned

vars ==
    <<plm_forward, template, stop_gradient, training, prompt_stop_gradient,
      wrapper, verbalizer, freeze_plm, freeze_dropout, forward_keys,
      process_model_calls, plm_prepare,
      base_model_prepare_inputs_for_generation, call>>

\* ------------------------------------------------------------ construction
\* FreezeParams stopping after the first parameter
FreezeFirst(params, freeze) ==
    [p \in DOMAIN params |-> IF freeze /\ p = 1 THEN TRUE ELSE params[p]]

\* lines 50-52 / 182-184: for param in plm.parameters(): stop_gradient = True
FreezeParams(params, freeze) ==
    [p \in DOMAIN params |-> IF freeze THEN TRUE ELSE params[p]]

\* EvalMode with plm.eval() outside the `if self.freeze_plm` block
EvalModeUnguarded(mode, freeze, dropout) ==
    IF dropout THEN FALSE ELSE mode

\* lines 53-54 / 185-186: plm.eval() only inside `if self.freeze_plm`
EvalMode(mode, freeze, dropout) ==
    IF freeze /\ dropout THEN FALSE ELSE mode

\* lines 55, 58-60 / 187, 193: signature(plm.forward), then the append
ForwardKeys(sig, isPrefix) ==
    IF isPrefix THEN Append(sig, "past_key_values") ELSE sig

NoCall ==
    [op |-> "none", err |-> "none", events |-> <<>>,
     kwargs |-> EmptyDict, soft_given |-> FALSE, cache |-> "None",
     plm_num_labels |-> <<>>, label_words |-> 0,
     pb_input |-> EmptyDict, input_dict |-> EmptyDict,
     model_inputs |-> EmptyDict,
     base_cache |-> "unset",
     output_type |-> "none", logits |-> "none", masked_positions |-> None,
     num_labels |-> <<>>, labels |-> "None", loss |-> "None",
     ret |-> <<>>, spec |-> <<>>, keywords |-> {}]

Init ==
    /\ plm_forward \in Signatures
    /\ template \in TemplateClasses
    /\ stop_gradient = [p \in 1..NParams |-> FALSE]
    /\ training = TRUE
    /\ prompt_stop_gradient = [q \in 1..NPrompt |-> FALSE]
    /\ wrapper = "none"
    /\ verbalizer = FALSE
    /\ freeze_plm = FALSE
    /\ freeze_dropout = FALSE
    /\ forward_keys = <<>>
    /\ process_model_calls = 0
    /\ plm_prepare = "plm"
    /\ base_model_prepare_inputs_for_generation = "unset"
    /\ call = NoCall

\* PromptModelForSequenceClassification.__init__
ClsInit(v, fp, fd) ==
    /\ wrapper = "none"
    /\ wrapper' = "cls"
    /\ verbalizer' = v
    /\ freeze_plm' = fp
    /\ freeze_dropout' = fd
    /\ stop_gradient' = FreezeParams(stop_gradient, fp)
    /\ training' = EvalMode(training, fp, fd)
    /\ forward_keys' = ForwardKeys(plm_forward, template = "PrefixTemplate")
    /\ process_model_calls' =
          IF template = "PrefixTemplate" THEN process_model_calls + 1
          ELSE process_model_calls
    /\ call' = [NoCall EXCEPT !.op = "__init__"]
    /\ UNCHANGED <<plm_forward, template, prompt_stop_gradient, plm_prepare,
                   base_model_prepare_inputs_for_generation>>

\* PromptModelForGeneration.__init__
GenInit(fp, fd) ==
    /\ wrapper = "none"
    /\ verbalizer' = FALSE
    /\ freeze_plm' = fp
    /\ freeze_dropout' = fd
    /\ stop_gradient' = FreezeParams(stop_gradient, fp)
    /\ training' = EvalMode(training, fp, fd)
    /\ IF template # "PrefixTemplate"
       THEN /\ wrapper' = "TypeError"
            /\ forward_keys' = plm_forward
            /\ call' = [NoCall EXCEPT !.op = "__init__", !.err = "TypeError"]
            /\ UNCHANGED <<process_model_calls,
                           base_model_prepare_inputs_for_generation>>
       ELSE /\ wrapper' = "gen"
            /\ forward_keys' = ForwardKeys(plm_forward, TRUE)
            /\ process_model_calls' = process_model_calls + 1
            /\ base_model_prepare_inputs_for_generation' = plm_prepare
            /\ call' = [NoCall EXCEPT !.op = "__init__"]
    /\ UNCHANGED <<plm_forward, template, prompt_stop_gradient, plm_prepare>>

Construct ==
    \/ \E v \in BOOLEAN, fp \in BOOLEAN, fd \in BOOLEAN : ClsInit(v, fp, fd)
    \/ \E fp \in BOOLEAN, fd \in BOOLEAN : GenInit(fp, fd)

\* ------------------------------------------------------------- the template
\* past_key_values a PrefixTemplate emits: one (key, value) pair per layer
PrefixLayers == [i \in 1..NLayer |-> <<2 * i - 1, 2 * i>>]

\* a value returned by template.process_batch
Tpl(k, v) == [src |-> "template", key |-> k, data |-> v.data]

\* template.process_batch(input_dict), by class of template:
\*   Template        returns the dict, keys unchanged;
\*   SoftTemplate    also sets attention_mask and inputs_embeds;
\*   PrefixTemplate  pops input_ids, soft_token_ids and encoder_ids and sets
\*                   inputs_embeds and past_key_values.
ProcessBatch(tpl, d) ==
    LET kept == IF tpl = "PrefixTemplate"
                THEN (DOMAIN d) \ {"input_ids", "soft_token_ids", "encoder_ids"}
                ELSE DOMAIN d
        added == CASE tpl = "Template" -> {}
                   [] tpl = "SoftTemplate" -> {"attention_mask", "inputs_embeds"}
                   [] OTHER -> {"inputs_embeds", "past_key_values"}
    IN  [k \in kept \cup added |->
            IF k = "past_key_values" /\ tpl = "PrefixTemplate"
            THEN [src |-> "template", key |-> k, data |-> PrefixLayers]
            ELSE IF k \in kept THEN Tpl(k, d[k])
            ELSE [src |-> "template", key |-> k, data |-> <<>>]]

\* ---------------------------------------------------------- caller's inputs
KwargKeys ==
    {"inputs_embeds", "past_key_values", "cache", "use_cache",
     "return_hidden_states"}
KwargSets == {K \in SUBSET KwargKeys : Cardinality(K) <= MaxKwargs}
\* past_key_values a caller passes: one layer, unlike the template's
CallerLayers == <<<<11, 12>>>>
\* a Python bool as a value's data
Bool(b) == IF b THEN <<<<1>>>> ELSE <<<<0>>>>
\* **kwargs with the keys K; hidden is the value of return_hidden_states
Kwargs(K, hidden) ==
    [k \in K |-> Kw(k, CASE k = "past_key_values" -> CallerLayers
                         [] k = "return_hidden_states" -> Bool(hidden)
                         [] OTHER -> <<>>)]

\* lines 76 / 212: kwargs.get("return_hidden_states", False), tested for
\* truth at lines 122 / 251
ReturnHiddenStates(kwargs) ==
    /\ "return_hidden_states" \in DOMAIN kwargs
    /\ kwargs["return_hidden_states"].data # Bool(FALSE)

\* dtype of the labels tensor, "None" when labels is None
Labels == {"None", "int64", "int32", "float32"}
\* return_dict as passed: None, True or False
ReturnDicts == {"None", "True", "False"}
\* class of the object the pretrained model returns
OutputTypes ==
    {"MaskedLMOutput", "SequenceClassifierOutput", "MultipleChoiceModelOutput",
     "CausalLMOutputWithCrossAttentions"}
\* plm.num_labels: <<>> is None, <<n>> is n
NumLabels == {<<>>} \cup {<<n>> : n \in 1..MaxNumLabels}

\* ------------------------------------------------ classification forward
\* lines 77-86
ClsInputDict(kwargs) ==
    Merge([k \in {"input_ids", "token_type_ids", "position_ids",
                  "masked_positions", "soft_token_ids", "attention_mask",
                  "encoder_ids"} |-> Arg(k)], kwargs)

\* Override without line 88 / 223
NoOverride(input_dict, kwargs) == input_dict

\* lines 88 / 223: {**input_dict, **kwargs}
Override(input_dict, kwargs) == Merge(input_dict, kwargs)

\* FilterKeys keeping every key
FilterNothing(d, fk) == d

\* lines 89 / 224 / 282: {k: d[k] for k in d if k in self.forward_keys}
FilterKeys(d, fk) == [k \in {x \in DOMAIN d : InList(x, fk)} |-> d[k]]

\* lines 89-91
ClsModelInputs(d, fk) ==
    LET m == FilterKeys(d, fk)
    IN  IF "masked_positions" \in DOMAIN m THEN Pop(m, "masked_positions") ELSE m

\* self.plm(**model_inputs, flag=True, ...): the keywords the model receives
WithFlags(m, flags) == Merge(m, [f \in flags |-> Flag(f)])

\* Python refuses a call that gives one keyword twice
RepeatedKeyword(m, flags) == (DOMAIN m) \cap flags # {}

\* Dispatch with no raise: what is not handled falls through to plain logits
DispatchNoRaise(output_type, verb, nl, nw) ==
    CASE output_type = "MaskedLMOutput" /\ verb ->
            [err |-> "none", logits |-> "verbalizer.process_outputs",
             num_labels |-> <<nw>>]
      [] output_type = "SequenceClassifierOutput" ->
            [err |-> "none", logits |-> "model_outputs.logits",
             num_labels |-> nl]
      [] OTHER ->
            [err |-> "none", logits |-> "model_outputs.logits",
             num_labels |-> <<-1>>]

\* lines 93-106: logits and num_labels by type of the model's output.
\* nl is plm.num_labels, nw is len(verbalizer.label_words).
Dispatch(output_type, verb, nl, nw) ==
    CASE output_type = "MaskedLMOutput" ->
            IF verb
            THEN [err |-> "none", logits |-> "verbalizer.process_outputs",
                  num_labels |-> <<nw>>]
            ELSE [err |-> "Exception: Verbalizer is required",
                  logits |-> "none", num_labels |-> <<>>]
      [] output_type = "SequenceClassifierOutput" ->
            [err |-> "none", logits |-> "model_outputs.logits",
             num_labels |-> nl]
      [] output_type = "MultipleChoiceModelOutput" ->
            [err |-> "none", logits |-> "model_outputs.logits",
             num_labels |-> <<-1>>]
      [] OTHER ->
            [err |-> "Exception: Model type not support yet",
             logits |-> "none", num_labels |-> <<>>]

\* lines 108-118: the loss function applied; None > 0 is a TypeError
LossFct(num_labels, labels) ==
    IF labels = "None" THEN "None"
    ELSE IF num_labels = <<1>> THEN "MSELoss"
    ELSE IF num_labels = <<>> THEN "TypeError"
    ELSE IF num_labels[1] > 0 /\ labels \in {"int64", "int32"}
         THEN "CrossEntropyLoss"
    ELSE "BCEWithLogitsLoss"

\* lines 120-134 / 249-264: the returned object, its class first, then the
\* fields that are not None
Output(return_dict, hidden, loss, dictClass) ==
    IF return_dict = "True"
    THEN <<dictClass>> \o (IF loss = "None" THEN <<>> ELSE <<"loss">>)
            \o <<"logits">>
            \o (IF dictClass = "CausalLMOutputWithCrossAttentions"
                THEN <<"past_key_values">> ELSE <<>>)
            \o <<"hidden_states">>
    ELSE LET output == <<"logits">> \o (IF hidden THEN <<"hidden_states">> ELSE <<>>)
         IN  IF loss # "None" THEN <<"tuple", "loss">> \o output
             ELSE IF Len(output) = 1 THEN <<"Tensor">> \o output
             ELSE <<"tuple">> \o output

\* PromptModelForSequenceClassification.forward, lines 62-134
ClsForwardCall(fk, tpl, verb, kwargs, labels, return_dict, output_type, nl, nw) ==
    LET given == ClsInputDict(kwargs)
        input_dict == Override(ProcessBatch(tpl, given), kwargs)
        model_inputs == ClsModelInputs(input_dict, fk)
        base == [NoCall EXCEPT !.op = "cls.forward",
                               !.kwargs = kwargs,
                               !.soft_given = TRUE,
                               !.plm_num_labels = nl,
                               !.label_words = nw,
                               !.events = <<"process_batch">>,
                               !.pb_input = given,
                               !.input_dict = input_dict,
                               !.labels = labels]
        d == Dispatch(output_type, verb, nl, nw)
        loss == LossFct(d.num_labels, labels)
        called == [base EXCEPT !.events = <<"process_batch", "plm">>,
                               !.model_inputs = WithFlags(model_inputs, {"return_dict"}),
                               !.output_type = output_type]
    IN  IF RepeatedKeyword(model_inputs, {"return_dict"})
        THEN [base EXCEPT !.err = "TypeError"]
        ELSE IF d.err # "none" THEN [called EXCEPT !.err = d.err]
        ELSE IF loss = "TypeError"
             THEN [called EXCEPT !.err = "TypeError", !.logits = d.logits,
                                 !.num_labels = d.num_labels]
        ELSE [called EXCEPT
                 !.logits = d.logits,
                 !.masked_positions =
                     IF output_type = "MaskedLMOutput"
                     THEN input_dict["masked_positions"] ELSE None,
                 !.num_labels = d.num_labels,
                 !.loss = loss,
                 !.ret = Output(return_dict,
                                ReturnHiddenStates(kwargs),
                                loss, "SequenceClassifierOutput")]

\* no call is in progress: the caller has taken the last result
Idle == call.op \in {"__init__", "returned"}

ClsForward ==
    /\ wrapper = "cls"
    /\ Idle
    /\ \E K \in KwargSets, labels \in Labels, return_dict \in ReturnDicts,
          output_type \in OutputTypes, nl \in NumLabels, nw \in 1..MaxNumLabels,
          hidden \in BOOLEAN :
          \* plm.num_labels and the label words are read in one branch each
          /\ output_type # "SequenceClassifierOutput" => nl = <<>>
          /\ ~(output_type = "MaskedLMOutput" /\ verbalizer) => nw = 1
          /\ "return_hidden_states" \notin K => hidden
          /\ call' = ClsForwardCall(forward_keys, template, verbalizer,
                                    Kwargs(K, hidden),
                                 labels, return_dict, output_type, nl, nw)
    /\ UNCHANGED <<plm_forward, template, stop_gradient, training,
                   prompt_stop_gradient, wrapper, verbalizer, freeze_plm,
                   freeze_dropout, forward_keys, process_model_calls,
                   plm_prepare, base_model_prepare_inputs_for_generation>>

\* the caller takes the result (or the exception) of the last call
Return ==
    /\ call.op \notin {"none", "__init__", "returned"}
    /\ call' = [NoCall EXCEPT !.op = "returned"]
    /\ UNCHANGED <<plm_forward, template, stop_gradient, training,
                   prompt_stop_gradient, wrapper, verbalizer, freeze_plm,
                   freeze_dropout, forward_keys, process_model_calls,
                   plm_prepare, base_model_prepare_inputs_for_generation>>

\* lines 64-70: forward's tensor parameters, in order
ForwardParams ==
    <<"input_ids", "token_type_ids", "position_ids", "attention_mask",
      "masked_positions", "soft_token_ids", "encoder_ids">>

\* paddle.static.InputSpec(shape, dtype, name); NoSpec is the None of line
\* 158; a dynamic shape is a row of None
InputSpec(shape, dtype, name) == [shape |-> shape, dtype |-> dtype, name |-> name]
NoSpec == [shape |-> <<>>, dtype |-> "None", name |-> "None"]
Dyn(n) == [i \in 1..n |-> "None"]

\* GetInputSpecList without the placeholder of line 158
GetInputSpecNoPlaceholder(template_keywords) ==
    <<InputSpec(Dyn(2), "int64", "input_ids"),
      InputSpec(Dyn(2), "int64", "token_type_ids"),
      InputSpec(Dyn(2), "int64", "position_ids"),
      InputSpec(Dyn(4), "float32", "attention_mask")>>
    \o (IF "mask" \in template_keywords
        THEN <<InputSpec(Dyn(1), "int64", "masked_positions")>> ELSE <<>>)
    \o (IF "soft" \in template_keywords
        THEN <<InputSpec(Dyn(2), "int64", "soft_token_ids")>>
             \o (IF "encoder" \in template_keywords
                 THEN <<InputSpec(Dyn(2), "int64", "encoder_ids")>> ELSE <<>>)
        ELSE <<>>)

\* lines 145-162
GetInputSpecList(template_keywords) ==
    <<InputSpec(Dyn(2), "int64", "input_ids"),
      InputSpec(Dyn(2), "int64", "token_type_ids"),
      InputSpec(Dyn(2), "int64", "position_ids"),
      InputSpec(Dyn(4), "float32", "attention_mask")>>
    \o (IF "mask" \in template_keywords
        THEN <<InputSpec(Dyn(1), "int64", "masked_positions")>> ELSE <<>>)
    \o (IF "soft" \in template_keywords
        THEN (IF "mask" \notin template_keywords THEN <<NoSpec>> ELSE <<>>)
             \o <<InputSpec(Dyn(2), "int64", "soft_token_ids")>>
             \o (IF "encoder" \in template_keywords
                 THEN <<InputSpec(Dyn(2), "int64", "encoder_ids")>> ELSE <<>>)
        ELSE <<>>)

\* keywords template.extract_template_keywords can find in a prompt
TemplateKeywords == {"text", "mask", "soft", "encoder"}

GetInputSpec ==
    /\ wrapper = "cls"
    /\ Idle
    /\ \E kws \in SUBSET TemplateKeywords :
          call' = [NoCall EXCEPT !.op = "get_input_spec", !.keywords = kws,
                                 !.spec = GetInputSpecList(kws)]
    /\ UNCHANGED <<plm_forward, template, stop_gradient, training,
                   prompt_stop_gradient, wrapper, verbalizer, freeze_plm,
                   freeze_dropout, forward_keys, process_model_calls,
                   plm_prepare, base_model_prepare_inputs_for_generation>>

\* ---------------------------------------------------- generation forward
\* ToCache with k and v exchanged
ToCacheSwapped(layers) ==
    [i \in 1..Len(layers) |-> <<layers[i][2], layers[i][1]>>]

\* MultiHeadAttention.Cache(k=past_key_values[i][0], v=past_key_values[i][1])
\* for i in range(len(past_key_values)), lines 226-234 / 284-292
ToCache(layers) == [i \in 1..Len(layers) |-> <<layers[i][1], layers[i][2]>>]

\* lines 225-235 / 283-293
ThreadPrefix(m, fk) ==
    IF ~InList("cache", fk) THEN [err |-> "none", inputs |-> m]
    ELSE IF "past_key_values" \notin DOMAIN m
         THEN [err |-> "KeyError", inputs |-> m]
    ELSE [err |-> "none",
          inputs |-> Pop(Merge(m, [k \in {"cache"} |->
                                     [src |-> "Cache", key |-> "cache",
                                      data |-> ToCache(m["past_key_values"].data)]]),
                         "past_key_values")]

\* lines 213-221
GenInputDict(kwargs, labels) ==
    Merge([k \in {"input_ids", "token_type_ids", "position_ids",
                  "soft_token_ids", "encoder_ids", "labels"} |->
              IF k = "labels" /\ labels = "None" THEN None ELSE Arg(k)], kwargs)

\* PromptModelForGeneration.forward, lines 196-264
GenForwardCall(fk, tpl, soft_given, kwargs, labels, return_dict) ==
    LET given == GenInputDict(kwargs, labels)
        input_dict == Override(ProcessBatch(tpl, given), kwargs)
        threaded == ThreadPrefix(FilterKeys(input_dict, fk), fk)
        base == [NoCall EXCEPT !.op = "gen.forward",
                               !.kwargs = kwargs,
                               !.soft_given = TRUE,
                               !.events = <<"process_batch">>,
                               !.pb_input = given,
                               !.input_dict = input_dict,
                               !.labels = labels]
        model_inputs == Pop(threaded.inputs, "labels")
        loss == IF labels = "None" THEN "None" ELSE "CrossEntropyLoss"
    IN  IF ~soft_given
        THEN [NoCall EXCEPT !.op = "gen.forward", !.events = <<"plm">>,
                            !.model_inputs = [k \in {"input_ids"} |-> Arg(k)],
                            !.labels = labels,
                            !.ret = <<"model_outputs">>]
        ELSE IF threaded.err # "none" THEN [base EXCEPT !.err = threaded.err]
        ELSE IF "labels" \notin DOMAIN threaded.inputs
             THEN [base EXCEPT !.err = "KeyError"]
        ELSE IF RepeatedKeyword(model_inputs, {"return_dict", "use_cache"})
             THEN [base EXCEPT !.err = "TypeError"]
        ELSE [base EXCEPT
                 !.events = <<"process_batch", "plm">>,
                 !.model_inputs = WithFlags(model_inputs, {"return_dict", "use_cache"}),
                 !.output_type = "CausalLMOutputWithCrossAttentions",
                 !.logits = "model_outputs.logits",
                 !.loss = loss,
                 !.ret = Output(return_dict,
                                ReturnHiddenStates(kwargs),
                                loss, "CausalLMOutputWithCrossAttentions")]

GenForward ==
    /\ wrapper = "gen"
    /\ Idle
    /\ \E soft_given \in BOOLEAN, K \in KwargSets, labels \in Labels,
          return_dict \in ReturnDicts, hidden \in BOOLEAN :
          \* without soft_token_ids only input_ids is read
          /\ ~soft_given => (K = {} /\ return_dict = "None")
          /\ "return_hidden_states" \notin K => hidden
          /\ call' = GenForwardCall(forward_keys, template, soft_given,
                                    Kwargs(K, hidden), labels, return_dict)
    /\ UNCHANGED <<plm_forward, template, stop_gradient, training,
                   prompt_stop_gradient, wrapper, verbalizer, freeze_plm,
                   freeze_dropout, forward_keys, process_model_calls,
                   plm_prepare, base_model_prepare_inputs_for_generation>>

\* ------------------------------------------------------------- generation
\* InstallHook without the assignment
KeepHook(hook) == hook

\* line 267: self.plm.prepare_inputs_for_generation = self.prepare_inputs_for_generation

InstallHook(hook) == "wrapper"

\* PromptModelForGeneration.generate, lines 266-269
Generate ==
    /\ wrapper = "gen"
    /\ Idle
    /\ plm_prepare' = InstallHook(plm_prepare)
    /\ call' = [NoCall EXCEPT !.op = "generate", !.events = <<"plm.generate">>]
    /\ UNCHANGED <<plm_forward, template, stop_gradient, training,
                   prompt_stop_gradient, wrapper, verbalizer, freeze_plm,
                   freeze_dropout, forward_keys, process_model_calls,
                   base_model_prepare_inputs_for_generation>>

\* line 272: the cache handed to the base preparation
BaseCacheArg(cache) == "None"

\* What the model's own prepare_inputs_for_generation returns: always
\* input_ids, position_ids, attention_mask and cache; with echo, also its own
\* soft_token_ids, token_type_ids and encoder_ids.
BasePrepare(echo) ==
    [k \in {"input_ids", "position_ids", "attention_mask", "cache"}
           \cup (IF echo THEN {"soft_token_ids", "token_type_ids", "encoder_ids"}
                 ELSE {}) |->
        [src |-> "base_prepare", key |-> k, data |-> <<>>]]

\* kwargs.get(k, None)
Get(kwargs, k) == IF k \in DOMAIN kwargs THEN kwargs[k] ELSE None

\* paddle.concat([t, u], axis=1): the rows of t followed by the rows of u,
\* for tensors with the same number of rows
Concat(t, u) == [r \in 1..Len(t) |-> t[r] \o u[r]]

\* lines 276-280: len_dif times, soft = concat([soft, [[0]]], axis=1); concat
\* raises when the two tensors differ in a dimension other than the axis
RECURSIVE PadSoft(_, _)
PadSoft(soft, len_dif) ==
    IF len_dif <= 0 THEN [err |-> "none", data |-> soft]
    ELSE IF Len(soft) # Len(<<<<0>>>>) THEN [err |-> "ValueError", data |-> soft]
    ELSE PadSoft(Concat(soft, <<<<0>>>>), len_dif - 1)

\* tensors of the decoding step: batch rows of the given length
Rows(batch, len, x) == [r \in 1..batch |-> [c \in 1..len |-> x]]

\* PromptModelForGeneration.prepare_inputs_for_generation, lines 271-297
PrepareCall(fk, tpl, base_fn, cache, kwargs, echo) ==
    LET start == [NoCall EXCEPT !.op = "prepare_inputs_for_generation",
                                !.kwargs = kwargs,
                                !.cache = cache,
                                !.events = <<"base_prepare">>,
                                !.base_cache = BaseCacheArg(cache)]
        model_kwargs ==
            Merge(BasePrepare(echo),
                  [k \in {"soft_token_ids", "token_type_ids", "encoder_ids"} |->
                      Get(kwargs, k)])
        tt == model_kwargs["token_type_ids"]
        soft == model_kwargs["soft_token_ids"]
        padded == PadSoft(soft.data, Len(tt.data[1]) - Len(soft.data[1]))
        pb_input == [model_kwargs EXCEPT !["soft_token_ids"].data = padded.data]
        input_dict == ProcessBatch(tpl, pb_input)
        threaded == ThreadPrefix(FilterKeys(input_dict, fk), fk)
    IN  IF base_fn = "wrapper"
        THEN [NoCall EXCEPT !.op = "prepare_inputs_for_generation",
                            !.kwargs = kwargs,
                            !.cache = cache,
                            !.err = "RecursionError"]
        ELSE IF tt = None \/ soft = None THEN [start EXCEPT !.err = "TypeError"]
        ELSE IF padded.err # "none" THEN [start EXCEPT !.err = padded.err]
        ELSE IF threaded.err # "none"
             THEN [start EXCEPT !.err = threaded.err,
                                !.events = <<"base_prepare", "process_batch">>,
                                !.pb_input = pb_input,
                                !.input_dict = input_dict]
        ELSE [start EXCEPT
                 !.events = <<"base_prepare", "process_batch">>,
                 !.pb_input = pb_input,
                 !.input_dict = input_dict,
                 !.model_inputs = WithFlags(threaded.inputs,
                                            {"use_cache", "return_dict"}),
                 !.ret = <<"model_inputs">>]

\* the generation kwargs of a decoding step
StepKwargs(K, batch, lt, ls) ==
    [k \in K |-> Kw(k, CASE k = "token_type_ids" -> Rows(batch, lt, 0)
                         [] k = "soft_token_ids" -> Rows(batch, ls, 1)
                         [] OTHER -> <<>>)]

PrepareInputs ==
    /\ wrapper = "gen"
    /\ Idle
    /\ \E K \in SUBSET {"soft_token_ids", "token_type_ids", "encoder_ids"},
          batch \in 1..MaxBatch, lt \in 1..MaxLen, ls \in 1..MaxLen,
          cache \in {"None", "Cache"}, echo \in BOOLEAN :
          call' = PrepareCall(forward_keys, template,
                              base_model_prepare_inputs_for_generation, cache,
                              StepKwargs(K, batch, lt, ls), echo)
    /\ UNCHANGED <<plm_forward, template, stop_gradient, training,
                   prompt_stop_gradient, wrapper, verbalizer, freeze_plm,
                   freeze_dropout, forward_keys, process_model_calls,
                   plm_prepare, base_model_prepare_inputs_for_generation>>

Next ==
    \/ Construct
    \/ ClsForward
    \/ GetInputSpec
    \/ GenForward
    \/ Generate
    \/ PrepareInputs
    \/ Return

Spec == Init /\ [][Next]_vars

\* Construction alone, on a model whose parameters and mode are arbitrary.
InitAnyModel ==
    /\ plm_forward \in Signatures
    /\ template \in TemplateClasses
    /\ stop_gradient \in [1..NParams -> BOOLEAN]
    /\ training \in BOOLEAN
    /\ prompt_stop_gradient = [q \in 1..NPrompt |-> FALSE]
    /\ wrapper = "none"
    /\ verbalizer = FALSE
    /\ freeze_plm = FALSE
    /\ freeze_dropout = FALSE
    /\ forward_keys = <<>>
    /\ process_model_calls = 0
    /\ plm_prepare = "plm"
    /\ base_model_prepare_inputs_for_generation = "unset"
    /\ call = NoCall

NextConstruct == Construct

SpecConstruct == InitAnyModel /\ [][NextConstruct]_vars

\* ------------------------------------------------------------------ claims
Flags == {"return_dict", "use_cache"}
ClsCalled == call.op = "cls.forward" /\ call.events = <<"process_batch", "plm">>
GenCalled ==
    call.op = "gen.forward" /\ call.events = <<"process_batch", "plm">>
Prepared == call.op = "prepare_inputs_for_generation" /\ call.err = "none"

\* C1: every keyword a forward call hands to the pretrained model is a name
\* of forward_keys (plm.forward's signature, plus past_key_values for a
\* PrefixTemplate) or one of the flags return_dict / use_cache, and the
\* classification forward never hands over masked_positions.
C1_OnlyForwardKeys ==
    /\ wrapper \in {"cls", "gen"} =>
          forward_keys = IF template = "PrefixTemplate"
                         THEN plm_forward \o <<"past_key_values">>
                         ELSE plm_forward
    /\ (ClsCalled \/ GenCalled) =>
          \A k \in DOMAIN call.model_inputs :
             \/ \E i \in 1..Len(forward_keys) : forward_keys[i] = k
             \/ k \in Flags /\ call.model_inputs[k].src = "flag"
    /\ ClsCalled => "masked_positions" \notin DOMAIN call.model_inputs

\* a classification call whose model accepts masked_positions and whose
\* caller passed a keyword the model does not accept
C1_Witness ==
    /\ ClsCalled
    /\ plm_forward = ErnieMaskedLM
    /\ "return_hidden_states" \in DOMAIN call.input_dict
    /\ "masked_positions" \in DOMAIN call.input_dict
    /\ "input_ids" \in DOMAIN call.model_inputs

DispatchErrors ==
    {"Exception: Verbalizer is required", "Exception: Model type not support yet"}

\* C2: the classification forward takes logits and num_labels by the type of
\* the model's output, and raises its Exception exactly for a MaskedLMOutput
\* without verbalizer and for an output of no supported type, after the one
\* call of the model and without any loss.
C2_Dispatch ==
    call.op = "cls.forward" =>
       /\ call.err \in DispatchErrors <=>
             \/ call.output_type = "MaskedLMOutput" /\ ~verbalizer
             \/ call.output_type \notin
                   {"MaskedLMOutput", "SequenceClassifierOutput",
                    "MultipleChoiceModelOutput"}
       /\ call.err \in DispatchErrors =>
             /\ call.events = <<"process_batch", "plm">>
             /\ call.loss = "None"
             /\ call.ret = <<>>
       /\ (call.output_type = "MaskedLMOutput" /\ verbalizer) =>
             /\ call.logits = "verbalizer.process_outputs"
             /\ call.masked_positions = call.input_dict["masked_positions"]
             /\ call.num_labels = <<call.label_words>>
       /\ call.output_type = "SequenceClassifierOutput" =>
             /\ call.logits = "model_outputs.logits"
             /\ call.num_labels = call.plm_num_labels
       /\ call.output_type = "MultipleChoiceModelOutput" =>
             /\ call.logits = "model_outputs.logits"
             /\ call.num_labels = <<-1>>

\* a MaskedLMOutput reached a wrapper built without verbalizer, labels given
C2_Witness ==
    /\ call.op = "cls.forward"
    /\ call.output_type = "MaskedLMOutput"
    /\ ~verbalizer
    /\ call.labels # "None"
    /\ call.err = "Exception: Verbalizer is required"

\* the loss the claim names for num_labels and the labels' dtype
C3_Priority(num_labels, labels) ==
    IF num_labels = <<1>> THEN "MSELoss"
    ELSE IF num_labels # <<>> /\ num_labels[1] > 0 /\ labels \in {"int64", "int32"}
         THEN "CrossEntropyLoss"
    ELSE "BCEWithLogitsLoss"

\* C3: once the logits are taken, the loss is None iff labels is None, and
\* otherwise it is the mean-squared error for num_labels = 1, cross-entropy
\* for num_labels > 0 with integer labels, binary cross-entropy otherwise.
C3_TaskLoss ==
    (call.op = "cls.forward" /\ call.logits # "none") =>
       /\ call.loss = "None" <=> call.labels = "None"
       /\ call.labels # "None" =>
             call.loss = C3_Priority(call.num_labels, call.labels)

\* C4 as stated: after construction every parameter of the pretrained model
\* has stop_gradient = True and the prompt parameters are trainable.
C4_AlwaysFrozen ==
    wrapper \in {"cls", "gen"} =>
       /\ \A p \in DOMAIN stop_gradient : stop_gradient[p]
       /\ \A q \in DOMAIN prompt_stop_gradient : ~prompt_stop_gradient[q]

\* C4 amended: after construction with freeze_plm = True every parameter of
\* the pretrained model has stop_gradient = True, and in every case the
\* prompt parameters are left trainable.
C4_FrozenWhenAsked ==
    wrapper \in {"cls", "gen"} =>
       /\ freeze_plm => \A p \in DOMAIN stop_gradient : stop_gradient[p]
       /\ \A q \in DOMAIN prompt_stop_gradient : ~prompt_stop_gradient[q]

C4_Witness ==
    /\ wrapper = "gen"
    /\ freeze_plm
    /\ \A p \in DOMAIN stop_gradient : stop_gradient[p]

\* soft_token_ids right-padded with 0 to the row length of token_type_ids
C5_Padded(soft, tt) ==
    [r \in 1..Len(soft) |->
        [c \in 1..(IF Len(tt[1]) > Len(soft[r]) THEN Len(tt[1]) ELSE Len(soft[r])) |->
            IF c <= Len(soft[r]) THEN soft[r][c] ELSE 0]]

\* C5: a decoding step whose kwargs carry soft_token_ids and token_type_ids
\* gives process_batch those fields and encoder_ids from the kwargs, with
\* soft_token_ids padded to the row length of token_type_ids; the base
\* preparation gets cache=None; the result has use_cache and return_dict set.
C5_InjectsPromptFields ==
    (/\ call.op = "prepare_inputs_for_generation"
     /\ {"soft_token_ids", "token_type_ids"} \subseteq DOMAIN call.kwargs) =>
       /\ call.err = "none"
       /\ call.base_cache = "None"
       /\ call.pb_input["token_type_ids"] = call.kwargs["token_type_ids"]
       /\ call.pb_input["encoder_ids"] =
             IF "encoder_ids" \in DOMAIN call.kwargs
             THEN call.kwargs["encoder_ids"] ELSE None
       /\ call.pb_input["soft_token_ids"].src = "kwargs"
       /\ call.pb_input["soft_token_ids"].data =
             C5_Padded(call.kwargs["soft_token_ids"].data,
                       call.kwargs["token_type_ids"].data)
       /\ call.model_inputs["use_cache"] = Flag("use_cache")
       /\ call.model_inputs["return_dict"] = Flag("return_dict")

\* C6 as stated: every forward call calls process_batch once, then the model
\* once, and the model receives converted values or caller keywords only.
C6_EveryForward ==
    (call.op \in {"cls.forward", "gen.forward"} /\ call.err = "none") =>
       /\ call.events = <<"process_batch", "plm">>
       /\ \A k \in (DOMAIN call.model_inputs) \ Flags :
             call.model_inputs[k].src \in {"template", "kwargs", "Cache"}

\* C6 amended: a classification forward, and a generation forward given
\* soft_token_ids, calls process_batch exactly once, before the at most one
\* call of the model, which receives for every keyword the caller's value
\* when the caller passed that keyword and the template's value otherwise
\* (the cache list is built from such a value); a generation forward
\* without soft_token_ids calls the model on input_ids alone and never calls
\* process_batch.
C6_Delegation ==
    call.op \in {"cls.forward", "gen.forward"} =>
       IF call.soft_given
       THEN /\ call.events \in {<<"process_batch">>, <<"process_batch", "plm">>}
            /\ \A k \in (DOMAIN call.model_inputs) \ Flags :
                  LET v == IF call.model_inputs[k].src = "Cache"
                           THEN call.input_dict["past_key_values"]
                           ELSE call.model_inputs[k]
                      n == IF call.model_inputs[k].src = "Cache"
                           THEN "past_key_values" ELSE k
                  IN  IF n \in DOMAIN call.kwargs
                      THEN v = call.kwargs[n]
                      ELSE v.src = "template"
       ELSE /\ call.events = <<"plm">>
            /\ call.model_inputs = [k \in {"input_ids"} |-> Arg(k)]

\* the caller's inputs_embeds replaced the template's in a call of the model
C6_Witness ==
    /\ ClsCalled
    /\ template = "SoftTemplate"
    /\ "inputs_embeds" \in DOMAIN call.kwargs
    /\ {"inputs_embeds", "input_ids"} \subseteq DOMAIN call.model_inputs
    /\ call.model_inputs["inputs_embeds"].src = "kwargs"
    /\ call.model_inputs["input_ids"].src = "template"

\* C7: the inputs of the generation wrapper's model never hold both
\* past_key_values and cache; with cache in the signature past_key_values is
\* replaced by one Cache(k, v) per layer, in order, whatever cache the caller
\* gave; otherwise past_key_values passes unchanged and no cache is added;
\* forward removes labels before the model is called.
C7_PrefixThreading ==
    (GenCalled \/ Prepared) =>
       LET mi == call.model_inputs
           pkv == call.input_dict["past_key_values"]
       IN  /\ ~({"past_key_values", "cache"} \subseteq DOMAIN mi)
           /\ IF \E i \in 1..Len(forward_keys) : forward_keys[i] = "cache"
              THEN /\ "past_key_values" \notin DOMAIN mi
                   /\ mi["cache"].src = "Cache"
                   /\ Len(mi["cache"].data) = Len(pkv.data)
                   /\ \A i \in 1..Len(pkv.data) :
                         /\ mi["cache"].data[i][1] = pkv.data[i][1]
                         /\ mi["cache"].data[i][2] = pkv.data[i][2]
              ELSE /\ "cache" \notin DOMAIN mi
                   /\ mi["past_key_values"] = pkv
           /\ GenCalled => "labels" \notin DOMAIN mi

\* the caller's own cache was replaced by the list built from the prefix
C7_Witness ==
    /\ GenCalled
    /\ "cache" \in DOMAIN call.kwargs
    /\ "cache" \in DOMAIN call.model_inputs
    /\ call.model_inputs["cache"].src = "Cache"
    /\ Len(call.model_inputs["cache"].data) = NLayer

\* C8: the wrapper's base_model_prepare_inputs_for_generation is always the
\* model's own function, so a decoding step never recurses; the model's
\* prepare_inputs_for_generation is its own until the first generate and the
\* wrapper's from then on.
C8_HookInstalledOnce ==
    /\ [](wrapper = "gen" =>
             /\ base_model_prepare_inputs_for_generation = "plm"
             /\ call.err # "RecursionError")
    /\ [][/\ plm_prepare = "wrapper" => plm_prepare' = "wrapper"
          /\ plm_prepare' # plm_prepare => call'.op = "generate"
          /\ (call'.op = "generate" /\ call.op # "generate") =>
                plm_prepare' = "wrapper"]_vars

\* a decoding step served after generate installed the hook
C8_Witness ==
    /\ plm_prepare = "wrapper"
    /\ Prepared
    /\ base_model_prepare_inputs_for_generation = "plm"

\* C9: the generation constructor raises TypeError iff the template is not a
\* PrefixTemplate, then without process_model and without capturing the
\* hook but with the freezing already done; on success process_model ran
\* once and past_key_values was appended once; freeze_dropout acts only
\* with freeze_plm, and without freeze_plm no parameter changes.
C9_Construction ==
    [][(wrapper = "none" /\ wrapper' # "none") =>
          /\ wrapper' = "TypeError" => template # "PrefixTemplate"
          /\ wrapper' = "gen" => template = "PrefixTemplate"
          /\ wrapper' = "TypeError" =>
                /\ process_model_calls' = process_model_calls
                /\ base_model_prepare_inputs_for_generation' = "unset"
          /\ wrapper' = "gen" =>
                /\ process_model_calls' = process_model_calls + 1
                /\ forward_keys' = plm_forward \o <<"past_key_values">>
                /\ base_model_prepare_inputs_for_generation' = "plm"
          /\ stop_gradient' =
                [p \in DOMAIN stop_gradient |-> freeze_plm' \/ stop_gradient[p]]
          /\ training' = (training /\ ~(freeze_plm' /\ freeze_dropout'))
          /\ ~freeze_plm' => (stop_gradient' = stop_gradient /\ training' = training)
      ]_vars

\* a failed construction that has frozen the caller's model and set eval mode
C9_Witness ==
    /\ wrapper = "TypeError"
    /\ freeze_plm /\ freeze_dropout
    /\ ~training
    /\ \A p \in DOMAIN stop_gradient : stop_gradient[p]
    /\ process_model_calls = 0

\* C10: get_input_spec is aligned with forward's parameters: the four base
\* specs first, then at index i the spec of forward's i-th parameter or None;
\* masked_positions iff "mask"; soft_token_ids iff "soft", at index 5 (0-based)
\* after a None when "mask" is absent; encoder_ids iff "soft" and "encoder".
C10_SpecAligned ==
    call.op = "get_input_spec" =>
       LET s == call.spec
           kws == call.keywords
           Has(n) == \E i \in 1..Len(s) : s[i].name = n
       IN  /\ Len(s) >= 4 /\ Len(s) <= Len(ForwardParams)
           /\ \A i \in 1..4 : s[i].name = ForwardParams[i]
           /\ \A i \in 5..Len(s) : s[i].name \in {ForwardParams[i], "None"}
           /\ Has("masked_positions") <=> "mask" \in kws
           /\ Has("soft_token_ids") <=> "soft" \in kws
           /\ "soft" \in kws =>
                 /\ s[6].name = "soft_token_ids"
                 /\ "mask" \notin kws => s[5] = NoSpec
           /\ Has("encoder_ids") <=> {"soft", "encoder"} \subseteq kws

\* soft without mask: the placeholder keeps soft_token_ids at its position
C10_Witness ==
    /\ call.op = "get_input_spec"
    /\ call.keywords = {"soft", "encoder"}
    /\ Len(call.spec) = 7
    /\ call.spec[5] = NoSpec
====
